---- MODULE Spec2Model ----
(***************************************************************************)
(* Inbound stream handling of the Kademlia DHT node (dht_net.go):          *)
(* handleNewStream / handleNewMessage, the idle timer armed with           *)
(* time.AfterFunc, the length-prefixed reader the loop reads from, and the *)
(* metrics the loop records.                                               *)
(*                                                                         *)
(* Every stream has one session (one call of handleNewStream).  A session  *)
(* is a sequential process whose position is session[s].pc; the timer      *)
(* runtime, the remote peer and the owner of the mode flag are the other   *)
(* processes.  events[s] records what the session did: the calls and the   *)
(* metrics of the current iteration of the loop in program order, and the  *)
(* totals since the session began.                                         *)
(***************************************************************************)
EXTENDS Naturals, Sequences, FiniteSets

\* Frames a remote peer sends on the single stream of Spec.
MaxFrames == 2

\* Frames a remote peer sends on the single stream of SpecLive.
LiveFrames == 1

\* Frames the remote peer of stream 1 sends in SpecMulti; the peer of stream 2
\* sends none.
MultiFrames == 1

\* dhtStreamIdleTimeout (1 minute), counted in clock ticks.
dhtStreamIdleTimeout == 2

\* network.MessageSizeMax, the largest payload the reader accepts, in bytes.
MessageSizeMax == 2

\* The inbound streams.  Spec and SpecLive accept stream 1 only; a stream that
\* has not been accepted has no session (pc = "absent").
Sessions == {1, 2}

modeServer == "modeServer"
modeClient == "modeClient"
Modes == {modeServer, modeClient}

\* Message types on the wire: two with a handler, one without.
MsgTypes == {"PING", "FIND_NODE", "X"}

\* The types handlerForMsgType returns a handler for.
Registered == {"PING", "FIND_NODE"}

handlerForMsgType(t) == IF t \in Registered THEN "handler" ELSE "nil"

\* What a handler can return: (nil, nil), a present response that is empty or
\* populated, or an error.
HandlerResults == {"nil", "empty", "populated", "error"}

VARIABLES mode, onRequestHook, stream, timer, session, events

vars == <<mode, onRequestHook, stream, timer, session, events>>

NoMsg == [seq |-> 0, type |-> "none", len |-> 0, ok |-> FALSE]

\* The frames a peer sends, one of each kind the loop tells apart: a request
\* of each type, and a payload that does not unmarshal.  n is the frame's
\* position in the peer's output; len is the payload length.
Frames(n) ==
    { [seq |-> n, type |-> "PING", len |-> 1, ok |-> TRUE],
      [seq |-> n, type |-> "FIND_NODE", len |-> MessageSizeMax, ok |-> TRUE],
      [seq |-> n, type |-> "X", len |-> 1, ok |-> TRUE],
      [seq |-> n, type |-> "none", len |-> MessageSizeMax, ok |-> FALSE] }

\* How the inbound side can end, as the (err, len(msgbytes)) the ReadMsg call
\* that meets it returns: the peer closes at a frame boundary (EOF, 0) or
\* right after a length prefix (EOF, n), closes inside a payload, announces a
\* frame above MessageSizeMax, resets the stream, or goes silent inside a
\* frame ("stalled": the read blocks).
Endings ==
    { [err |-> "EOF", len |-> 0],
      [err |-> "EOF", len |-> 1],
      [err |-> "ErrUnexpectedEOF", len |-> MessageSizeMax],
      [err |-> "ErrMsgTooLarge", len |-> 0],
      [err |-> "stream reset", len |-> 0],
      [err |-> "stalled", len |-> 1] }

Open == [err |-> "open", len |-> 0]

\* One entry of the history: what was done (e), the message type it is
\* tagged with (t), the amount (n) and the result (r).
EvR(e, t, n, r) == [e |-> e, t |-> t, n |-> n, r |-> r]

Ev(e, t, n) == EvR(e, t, n, "-")

\* The three metrics recorded for bytes that could not be attributed to a type.
UnknownTriple(msgLen) ==
    << Ev("ReceivedMessages", "UNKNOWN", 1),
       Ev("ReceivedMessageErrors", "UNKNOWN", 1),
       Ev("ReceivedBytes", "UNKNOWN", msgLen) >>

\* The totals kept per session: calls by name, metrics by name (summing the
\* amounts added), the "received" count under the UNKNOWN tag, and the
\* handler calls that returned a response.
Calls == {"ReadMsg", "Unmarshal", "timer.Reset", "onRequestHook", "handler", "WriteMsg"}

Metrics == {"ReceivedMessages", "ReceivedMessageErrors", "ReceivedBytes", "InboundRequestLatency"}

Kinds == Calls \cup Metrics \cup {"ReceivedMessages/UNKNOWN", "handler/response"}

RECURSIVE Amount(_, _)
Amount(evs, k) ==
    IF evs = <<>> THEN 0
    ELSE LET ev == Head(evs)
             here == IF k \in Calls /\ ev.e = k THEN 1
                     ELSE IF k \in Metrics /\ ev.e = k THEN ev.n
                     ELSE IF k = "ReceivedMessages/UNKNOWN"
                             /\ ev.e = "ReceivedMessages" /\ ev.t = "UNKNOWN" THEN ev.n
                     ELSE IF k = "handler/response"
                             /\ ev.e = "handler" /\ ev.r \in {"empty", "populated"} THEN 1
                     ELSE 0
         IN here + Amount(Tail(evs), k)

\* Progress of a session through the exchange: PING answered by an empty
\* response, then FIND_NODE answered by a populated one, then a clean end of
\* stream.  Anything else the session receives or handles leaves the exchange.
ScenarioStep(q, ev) ==
    IF ev.e = "ReceivedMessages"
    THEN IF q = "start" /\ ev.t = "PING" THEN "ping"
         ELSE IF q = "ping answered" /\ ev.t = "FIND_NODE" THEN "find"
         ELSE "off"
    ELSE IF ev.e = "handler"
    THEN IF q = "ping" /\ ev.t = "PING" /\ ev.r = "empty" THEN "ping answered"
         ELSE IF q = "find" /\ ev.t = "FIND_NODE" /\ ev.r = "populated" THEN "find answered"
         ELSE "off"
    ELSE IF ev.e = "ReadMsg" /\ ev.r # "nil"
    THEN IF q = "find answered" /\ ev.r = "EOF" /\ ev.n = 0 THEN "matched" ELSE "off"
    ELSE q

RECURSIVE Scenario(_, _)
Scenario(q, evs) == IF evs = <<>> THEN q ELSE Scenario(ScenarioStep(q, Head(evs)), Tail(evs))

NoEvents == [iter |-> <<>>, count |-> [k \in Kinds |-> 0], scenario |-> "start"]

\* The history after the session did evs.
Emit(log, evs) ==
    [iter |-> log.iter \o evs,
     count |-> [k \in Kinds |-> log.count[k] + Amount(evs, k)],
     scenario |-> Scenario(log.scenario, evs)]

\* The history at the top of a new iteration.
NewIteration(log) == [log EXCEPT !.iter = <<>>]

NewStream(frames) ==
    [inbox |-> <<>>, fin |-> Open, sent |-> 0, budget |-> frames,
     reset |-> FALSE, closed |-> FALSE, outbox |-> <<>>,
     calls |-> [Close |-> 0, Reset |-> 0, WatchdogReset |-> 0]]

NewTimer == [armed |-> TRUE, left |-> dhtStreamIdleTimeout, pending |-> 0]

NoTimer == [armed |-> FALSE, left |-> 0, pending |-> 0]

\* The local variables of handleNewMessage: the position in the function, the
\* result of the last ReadMsg (err, msgLen, and the frame in msgbytes), the
\* type of req, resp, and the value returned.
NewSession(pc) ==
    [pc |-> pc, err |-> "none", msgLen |-> 0, msg |-> NoMsg,
     req |-> "none", resp |-> "none", ret |-> "running"]

\* The state in which the streams of `active` have been accepted and their
\* sessions are about to enter the loop, the timer armed.
InitWith(active, frames) ==
    /\ mode \in Modes
    /\ onRequestHook \in BOOLEAN
    /\ stream = [s \in Sessions |-> NewStream(IF s \in active THEN frames ELSE 0)]
    /\ timer = [s \in Sessions |-> IF s \in active THEN NewTimer ELSE NoTimer]
    /\ session = [s \in Sessions |-> NewSession(IF s \in active THEN "gate" ELSE "absent")]
    /\ events = [s \in Sessions |-> NoEvents]

Init == InitWith({1}, MaxFrames)

InitLive == InitWith({1}, LiveFrames)

\* Both streams have been accepted and their sessions run concurrently, on a
\* node without a request hook.  The peer of stream 1 sends requests; the peer
\* of stream 2 only ends the stream or stays silent.
InitMulti ==
    /\ mode \in Modes
    /\ onRequestHook = FALSE
    /\ stream = [s \in Sessions |-> NewStream(IF s = 1 THEN MultiFrames ELSE 0)]
    /\ timer = [s \in Sessions |-> NewTimer]
    /\ session = [s \in Sessions |-> NewSession("gate")]
    /\ events = [s \in Sessions |-> NoEvents]

----------------------------------------------------------------------------
(* The length-prefixed reader and writer over the stream.                  *)

\* Length of the frame whose prefix has arrived but whose payload has not.
PendingLen(st) == IF st.inbox = <<>> /\ st.fin.err # "open" THEN st.fin.len ELSE 0

\* A read returns once the stream was reset locally, a complete frame is
\* buffered, or the inbound side has ended; otherwise it blocks.
ReadReady(st) ==
    \/ st.reset
    \/ st.inbox # <<>>
    \/ st.fin.err \notin {"open", "stalled"}

\* The (msgbytes, err) pairs ReadMsg can return in stream state st.  A reset
\* stream fails every read; the bytes returned with the error are those of
\* the frame the read was blocked in, if the reset came during the payload.
ReadOutcomes(st) ==
    IF st.reset
    THEN { [err |-> "stream reset", len |-> n, msg |-> NoMsg] : n \in {0, PendingLen(st)} }
    ELSE IF st.inbox # <<>>
    THEN { [err |-> "nil", len |-> Head(st.inbox).len, msg |-> Head(st.inbox)] }
    ELSE { [err |-> st.fin.err, len |-> st.fin.len, msg |-> NoMsg] }

\* net.WriteMsg fails on a stream that was reset by either side, and may fail
\* on any stream (connection loss).
WriteOutcomes(st) ==
    IF st.reset \/ st.fin.err = "stream reset" THEN {"error"} ELSE {"nil", "error"}

----------------------------------------------------------------------------
(* handleNewMessage.  One action per step that blocks or touches the       *)
(* stream or the mode flag; the statements between two such steps are      *)
(* local to the session and belong to the action they follow.              *)

\* How a step leaves the session: at pc, with these events recorded, the
\* timer rearmed or not, and req, resp and ret as given ("=" keeps a value).
Step(pc, evs, rearm, req, resp, ret) ==
    [pc |-> pc, evs |-> evs, rearm |-> rearm, req |-> req, resp |-> resp, ret |-> ret]

Continue(pc, evs) == Step(pc, evs, FALSE, "=", "=", "running")

\* return <value>: the function is left; the deferred timer.Stop runs.
Return(value, evs) == Step("caller", evs, FALSE, "=", "=", value)

Keep(new, old) == IF new = "=" THEN old ELSE new

\* The timer after a step: timer.Reset(dhtStreamIdleTimeout) if the step
\* makes that call, then the deferred timer.Stop if the step returns.
\* timer.Stop disarms the timer; a callback that has already been started is
\* not waited for.
TimerAfter(tm, step) ==
    LET reset == IF step.rearm
                 THEN [tm EXCEPT !.armed = TRUE, !.left = dhtStreamIdleTimeout]
                 ELSE tm
    IN IF step.ret # "running" THEN [reset EXCEPT !.armed = FALSE] ELSE reset

\* The session and its timer after a step.
Apply(s, step) ==
    /\ session' = [session EXCEPT ![s].pc = step.pc,
                                  ![s].req = Keep(step.req, @),
                                  ![s].resp = Keep(step.resp, @),
                                  ![s].ret = step.ret]
    /\ events' = [events EXCEPT ![s] = Emit(@, step.evs)]
    /\ timer' = [timer EXCEPT ![s] = TimerAfter(@, step)]

\* A loop without the mode check.
ModeGateStepOpen(m) == Continue("read", <<>>)

\* if dht.getMode() != modeServer { return false }; otherwise an iteration
\* begins, with its own req, msgbytes and err.
ModeGateStep(m) ==
    IF m # modeServer THEN Return("false", <<>>) ELSE Continue("read", <<>>)

ModeGate(s) ==
    /\ session[s].pc = "gate"
    /\ LET step == ModeGateStep(mode) IN
          /\ session' = [session EXCEPT ![s] =
                           IF step.pc = "read" THEN NewSession("read")
                           ELSE [@ EXCEPT !.pc = step.pc, !.ret = step.ret]]
          /\ events' = [events EXCEPT ![s] =
                          IF step.pc = "read" THEN NewIteration(@) ELSE @]
          /\ timer' = [timer EXCEPT ![s] = TimerAfter(@, step)]
    /\ UNCHANGED <<mode, onRequestHook, stream>>

\* An error branch without the io.EOF test.
ReadErrorStepNoEOF(err, msgLen) ==
    Return("false", IF msgLen > 0 THEN UnknownTriple(msgLen) ELSE <<>>)

\* if err != nil { ... }: io.EOF returns true; any other error records the
\* UNKNOWN metrics when bytes came with it, and returns false.
ReadErrorStep(err, msgLen) ==
    IF err = "EOF" THEN Return("true", <<>>)
    ELSE Return("false", IF msgLen > 0 THEN UnknownTriple(msgLen) ELSE <<>>)

\* A lookup that drops a message without a handler and reads on.
LookupStepIgnore(t) ==
    IF handlerForMsgType(t) = "nil" THEN Continue("gate", <<>>) ELSE Continue("handler", <<>>)

\* handler := dht.handlerForMsgType(req.GetType()); if handler == nil { ... }
LookupStep(t) ==
    IF handlerForMsgType(t) = "nil"
    THEN Return("false", << Ev("ReceivedMessageErrors", t, 1) >>)
    ELSE Continue("handler", <<>>)

\* A hook called only for the types that have a handler.
HookEventsRegisteredOnly(hook, t) ==
    IF hook /\ handlerForMsgType(t) # "nil" THEN << Ev("onRequestHook", t, 0) >> ELSE <<>>

\* if dht.onRequestHook != nil { dht.onRequestHook(ctx, s, &req) }
HookEvents(hook, t) == IF hook THEN << Ev("onRequestHook", t, 0) >> ELSE <<>>

\* timer.Reset, then the receipt counted under the type the message declares.
ReceiptEvents(t, msgLen) ==
    << Ev("timer.Reset", "-", dhtStreamIdleTimeout),
       Ev("ReceivedMessages", t, 1),
       Ev("ReceivedBytes", t, msgLen) >>

\* A loop that counts a frame that does not unmarshal and reads on.
UnmarshalStepSkipBad(m, msgLen, hook) ==
    IF ~m.ok
    THEN Continue("gate", << EvR("Unmarshal", "-", msgLen, "error") >> \o UnknownTriple(msgLen))
    ELSE LET l == LookupStep(m.type) IN
         [l EXCEPT !.evs = << EvR("Unmarshal", "-", msgLen, "nil") >>
                               \o ReceiptEvents(m.type, msgLen)
                               \o HookEvents(hook, m.type) \o @,
                   !.rearm = TRUE,
                   !.req = m.type]

\* A loop that calls timer.Reset before Unmarshal, for every frame read.
UnmarshalStepRearmFirst(m, msgLen, hook) ==
    LET reset == << Ev("timer.Reset", "-", dhtStreamIdleTimeout) >> IN
    IF ~m.ok
    THEN LET r == Return("false", UnknownTriple(msgLen)) IN
         [r EXCEPT !.evs = reset \o << EvR("Unmarshal", "-", msgLen, "error") >> \o @,
                   !.rearm = TRUE]
    ELSE LET l == LookupStep(m.type) IN
         [l EXCEPT !.evs = reset \o << EvR("Unmarshal", "-", msgLen, "nil") >>
                               \o Tail(ReceiptEvents(m.type, msgLen))
                               \o HookEvents(hook, m.type) \o @,
                   !.rearm = TRUE,
                   !.req = m.type]

\* err = req.Unmarshal(msgbytes) and what follows it up to the handler call.
UnmarshalStep(m, msgLen, hook) ==
    IF ~m.ok
    THEN LET r == Return("false", UnknownTriple(msgLen)) IN
         [r EXCEPT !.evs = << EvR("Unmarshal", "-", msgLen, "error") >> \o @]
    ELSE LET l == LookupStep(m.type) IN
         [l EXCEPT !.evs = << EvR("Unmarshal", "-", msgLen, "nil") >>
                               \o ReceiptEvents(m.type, msgLen)
                               \o HookEvents(hook, m.type) \o @,
                   !.rearm = TRUE,
                   !.req = m.type]

\* msgbytes, err := r.ReadMsg() and the statements up to the next call that
\* blocks (the handler) or to the return.
ReadStep(out, hook) ==
    LET after == IF out.err # "nil" THEN ReadErrorStep(out.err, out.len)
                 ELSE UnmarshalStep(out.msg, out.len, hook)
    IN [after EXCEPT !.evs = << EvR("ReadMsg", "-", out.len, out.err) >> \o @]

ReadMsg(s) ==
    /\ session[s].pc = "read"
    /\ ReadReady(stream[s])
    /\ \E out \in ReadOutcomes(stream[s]) :
          /\ stream' = [stream EXCEPT ![s].inbox = IF out.err = "nil" THEN Tail(@) ELSE @]
          /\ LET step == ReadStep(out, onRequestHook) IN
                /\ session' = [session EXCEPT ![s].pc = step.pc,
                                              ![s].err = out.err,
                                              ![s].msgLen = out.len,
                                              ![s].msg = out.msg,
                                              ![s].req = Keep(step.req, @),
                                              ![s].ret = step.ret]
                /\ events' = [events EXCEPT ![s] = Emit(@, step.evs)]
                /\ timer' = [timer EXCEPT ![s] = TimerAfter(@, step)]
    /\ UNCHANGED <<mode, onRequestHook>>

\* A loop that treats an empty response like no response.
HandlerStepSkipEmpty(t, r) ==
    LET call == << EvR("handler", t, 0, r) >> IN
    IF r = "error" THEN Return("false", call \o << Ev("ReceivedMessageErrors", t, 1) >>)
    ELSE IF r \in {"nil", "empty"} THEN Continue("gate", call)
    ELSE [Continue("write", call) EXCEPT !.resp = r]

\* A loop that reads the next request before the response is written.
HandlerStepPipelined(t, r) ==
    LET call == << EvR("handler", t, 0, r) >> IN
    IF r = "error" THEN Return("false", call \o << Ev("ReceivedMessageErrors", t, 1) >>)
    ELSE [Continue("gate", call) EXCEPT !.resp = r]

\* A loop that counts a handler error and goes on to the next frame.
HandlerStepRetry(t, r) ==
    LET call == << EvR("handler", t, 0, r) >> IN
    IF r = "error" THEN Continue("gate", call \o << Ev("ReceivedMessageErrors", t, 1) >>)
    ELSE IF r = "nil" THEN Continue("gate", call)
    ELSE [Continue("write", call) EXCEPT !.resp = r]

\* A loop that returns on a handler error without counting it.
HandlerStepUncounted(t, r) ==
    LET call == << EvR("handler", t, 0, r) >> IN
    IF r = "error" THEN Return("false", call)
    ELSE IF r = "nil" THEN Continue("gate", call)
    ELSE [Continue("write", call) EXCEPT !.resp = r]

\* A loop that writes whatever the handler returned, a nil response included.
HandlerStepWriteNil(t, r) ==
    LET call == << EvR("handler", t, 0, r) >> IN
    IF r = "error" THEN Return("false", call \o << Ev("ReceivedMessageErrors", t, 1) >>)
    ELSE [Continue("write", call) EXCEPT !.resp = r]

\* resp, err := handler(ctx, mPeer, &req); an error returns false, a nil
\* response continues the loop, any other response is written.
HandlerStep(t, r) ==
    LET call == << EvR("handler", t, 0, r) >> IN
    IF r = "error" THEN Return("false", call \o << Ev("ReceivedMessageErrors", t, 1) >>)
    ELSE IF r = "nil" THEN Continue("gate", call)
    ELSE [Continue("write", call) EXCEPT !.resp = r]

Handler(s) ==
    /\ session[s].pc = "handler"
    /\ \E r \in HandlerResults : Apply(s, HandlerStep(session[s].req, r))
    /\ UNCHANGED <<mode, onRequestHook, stream>>

\* A write step that records no latency sample.
WriteStepNoLatency(t, w) ==
    LET call == << EvR("WriteMsg", t, 0, w) >> IN
    IF w # "nil" THEN Return("false", call \o << Ev("ReceivedMessageErrors", t, 1) >>)
    ELSE Continue("gate", call)

\* A write step that records the latency whether or not the write succeeded.
WriteStepLatencyFirst(t, w) ==
    LET call == << EvR("WriteMsg", t, 0, w), Ev("InboundRequestLatency", t, 1) >> IN
    IF w # "nil" THEN Return("false", call \o << Ev("ReceivedMessageErrors", t, 1) >>)
    ELSE Continue("gate", call)

\* err = net.WriteMsg(s, resp): a failure is counted and returns false, a
\* success records the latency and continues the loop.
WriteStep(t, w) ==
    LET call == << EvR("WriteMsg", t, 0, w) >> IN
    IF w # "nil" THEN Return("false", call \o << Ev("ReceivedMessageErrors", t, 1) >>)
    ELSE Continue("gate", call \o << Ev("InboundRequestLatency", t, 1) >>)

WriteMsg(s) ==
    /\ session[s].pc = "write"
    /\ \E w \in WriteOutcomes(stream[s]) :
          /\ stream' = [stream EXCEPT ![s].outbox =
                          IF w = "nil" THEN Append(@, session[s].msg.seq) ELSE @]
          /\ Apply(s, WriteStep(session[s].req, w))
    /\ UNCHANGED <<mode, onRequestHook>>

----------------------------------------------------------------------------
(* handleNewStream: what is done with the stream once the loop returned.   *)

\* A caller that closes on failure and resets on success.
StreamCallSwapped(ret) == IF ret = "true" THEN "Reset" ELSE "Close"

StreamCall(ret) == IF ret = "true" THEN "Close" ELSE "Reset"

\* A caller that, when a session failed, resets every stream of the node.
HandleNewStreamAll(s) ==
    /\ session[s].pc = "caller"
    /\ stream' = [t \in Sessions |->
                    IF StreamCall(session[s].ret) = "Reset"
                    THEN [stream[t] EXCEPT !.reset = TRUE]
                    ELSE IF t = s THEN [stream[t] EXCEPT !.closed = TRUE, !.calls.Close = @ + 1]
                    ELSE stream[t]]
    /\ session' = [session EXCEPT ![s].pc = "done"]
    /\ UNCHANGED <<mode, onRequestHook, timer, events>>

HandleNewStream(s) ==
    /\ session[s].pc = "caller"
    /\ stream' = [stream EXCEPT ![s] =
                    IF StreamCall(session[s].ret) = "Close"
                    THEN [@ EXCEPT !.closed = TRUE, !.calls.Close = @ + 1]
                    ELSE [@ EXCEPT !.reset = TRUE, !.calls.Reset = @ + 1]]
    /\ session' = [session EXCEPT ![s].pc = "done"]
    /\ UNCHANGED <<mode, onRequestHook, timer, events>>

----------------------------------------------------------------------------
(* The timer runtime: time.AfterFunc(dhtStreamIdleTimeout, s.Reset).       *)

\* One tick of the clock: every armed timer that has time left loses one.
Tick ==
    /\ \E s \in Sessions : timer[s].armed /\ timer[s].left > 0
    /\ timer' = [s \in Sessions |->
                   IF timer[s].armed /\ timer[s].left > 0
                   THEN [timer[s] EXCEPT !.left = @ - 1]
                   ELSE timer[s]]
    /\ UNCHANGED <<mode, onRequestHook, stream, session, events>>

\* The timer expires: the runtime starts the callback in its own goroutine.
TimerFire(s) ==
    /\ timer[s].armed
    /\ timer[s].left = 0
    /\ timer' = [timer EXCEPT ![s].armed = FALSE, ![s].pending = @ + 1]
    /\ UNCHANGED <<mode, onRequestHook, stream, session, events>>

\* A callback that leaves the stream alone.
TimerCallbackIdle(st) == [st EXCEPT !.calls.WatchdogReset = @ + 1]

\* func() { _ = s.Reset() }
TimerCallback(st) == [st EXCEPT !.reset = TRUE, !.calls.WatchdogReset = @ + 1]

\* The callback runs.
WatchdogReset(s) ==
    /\ timer[s].pending > 0
    /\ timer' = [timer EXCEPT ![s].pending = @ - 1]
    /\ stream' = [stream EXCEPT ![s] = TimerCallback(@)]
    /\ UNCHANGED <<mode, onRequestHook, session, events>>

----------------------------------------------------------------------------
(* The environment: the remote peer and the owner of the mode flag.        *)

\* The stream still exists on this side and the peer has not ended it.
PeerCanSend(s) ==
    /\ session[s].pc # "absent"
    /\ ~stream[s].reset
    /\ ~stream[s].closed
    /\ stream[s].fin = Open

\* A complete frame arrives and is buffered by the transport.
PeerSend(s) ==
    /\ PeerCanSend(s)
    /\ stream[s].budget > 0
    /\ \E f \in Frames(stream[s].sent + 1) :
          stream' = [stream EXCEPT ![s].inbox = Append(@, f),
                                   ![s].sent = @ + 1,
                                   ![s].budget = @ - 1]
    /\ UNCHANGED <<mode, onRequestHook, timer, session, events>>

\* The inbound side ends.  A reset by the peer discards what is buffered.
PeerEnd(s) ==
    /\ PeerCanSend(s)
    /\ \E e \in Endings :
          stream' = [stream EXCEPT ![s].fin = e,
                                   ![s].inbox = IF e.err = "stream reset" THEN <<>> ELSE @]
    /\ UNCHANGED <<mode, onRequestHook, timer, session, events>>

\* dht.setMode, called by the node outside this loop.
SetMode ==
    /\ \E m \in Modes \ {mode} : mode' = m
    /\ UNCHANGED <<onRequestHook, stream, timer, session, events>>

----------------------------------------------------------------------------

Next ==
    \/ \E s \in Sessions : ModeGate(s)
    \/ \E s \in Sessions : ReadMsg(s)
    \/ \E s \in Sessions : Handler(s)
    \/ \E s \in Sessions : WriteMsg(s)
    \/ \E s \in Sessions : HandleNewStream(s)
    \/ Tick
    \/ \E s \in Sessions : TimerFire(s)
    \/ \E s \in Sessions : WatchdogReset(s)
    \/ \E s \in Sessions : PeerSend(s)
    \/ \E s \in Sessions : PeerEnd(s)
    \/ SetMode

\* The scheduler runs every goroutine that can take a step (the session, the
\* timer callback), the timer runtime fires an expired timer, and time passes.
Fairness ==
    /\ WF_vars(Tick)
    /\ \A s \in Sessions :
          /\ WF_vars(TimerFire(s))
          /\ WF_vars(WatchdogReset(s))
          /\ WF_vars(ModeGate(s))
          /\ WF_vars(ReadMsg(s))
          /\ WF_vars(Handler(s))
          /\ WF_vars(WriteMsg(s))
          /\ WF_vars(HandleNewStream(s))

Spec == Init /\ [][Next]_vars

SpecLive == InitLive /\ [][Next]_vars /\ Fairness

SpecMulti == InitMulti /\ [][Next]_vars

----------------------------------------------------------------------------
(* Properties.                                                             *)

Iter(s) == events[s].iter

Total(s, k) == events[s].count[k]

\* The events named e of the current iteration.
Of(s, e) == { i \in DOMAIN Iter(s) : Iter(s)[i].e = e }

N(s, e) == Cardinality(Of(s, e))

Returned(s) == session[s].pc \in {"caller", "done"}

\* C1: a session returns exactly one of true and false and never changes it;
\* handleNewStream then closes the stream, without resetting it, when the
\* value is true, and resets it, without closing it, when the value is false.
OneOutcomeMappedOneWay ==
    /\ [](\A s \in Sessions :
            LET c == stream[s].calls IN
            /\ Returned(s) <=> session[s].ret \in {"true", "false"}
            /\ session[s].pc # "done" => c.Close = 0 /\ c.Reset = 0
            /\ session[s].pc = "done" /\ session[s].ret = "true"
                  => c.Close = 1 /\ c.Reset = 0 /\ stream[s].closed
            /\ session[s].pc = "done" /\ session[s].ret = "false"
                  => c.Reset = 1 /\ c.Close = 0 /\ stream[s].reset /\ ~stream[s].closed)
    /\ [][\A s \in Sessions :
            session[s].ret # "running" => session'[s].ret = session[s].ret]_vars

ClosedAfterOrderlyReturn ==
    \E s \in Sessions :
        session[s].pc = "done" /\ session[s].ret = "true" /\ stream[s].calls.Close = 1

\* An event that reports one of the errors of the loop: a failed read (io.EOF
\* is not one), a failed unmarshal, a failed handler, a failed write, or the
\* error count (the only trace of a missing handler).
ErrorEvent(ev) ==
    \/ ev.e = "ReadMsg" /\ ev.r \notin {"nil", "EOF"}
    \/ ev.e \in {"Unmarshal", "handler", "WriteMsg"} /\ ev.r = "error"
    \/ ev.e = "ReceivedMessageErrors"

Failed(s) == \E i \in DOMAIN Iter(s) : ErrorEvent(Iter(s)[i])

\* C2: once a read error, a decode failure, a missing handler, a handler
\* failure or a write failure has occurred, the session has returned false,
\* and from then on it calls neither ReadMsg, nor Unmarshal, nor a handler,
\* nor WriteMsg again, in the same iteration or later.
ErrorsAreTerminal ==
    /\ [](\A s \in Sessions :
            Failed(s) =>
               /\ Returned(s) /\ session[s].ret = "false"
               /\ \A i, j \in DOMAIN Iter(s) :
                     i < j /\ ErrorEvent(Iter(s)[i])
                        => Iter(s)[j].e \in Metrics)
    /\ [][\A s \in Sessions :
            Failed(s) =>
               /\ events'[s] = events[s]
               /\ stream'[s].outbox = stream[s].outbox
               /\ session'[s].ret = "false"]_vars

AbortedByWriteFailure ==
    \E s \in Sessions :
        /\ session[s].pc = "done"
        /\ \E i \in DOMAIN Iter(s) : Iter(s)[i].e = "WriteMsg" /\ Iter(s)[i].r = "error"

\* C3: when ReadMsg reports io.EOF with no bytes, the session returns true and
\* that read records no metric; no received-error event and no UNKNOWN
\* receipt was recorded by the session at all.
CleanEOFIsOrderlyAndSilent ==
    \A s \in Sessions :
        session[s].err = "EOF" /\ session[s].msgLen = 0 =>
           /\ Returned(s) /\ session[s].ret = "true"
           /\ Iter(s) = << EvR("ReadMsg", "-", 0, "EOF") >>
           /\ Total(s, "ReceivedMessageErrors") = 0
           /\ Total(s, "ReceivedMessages/UNKNOWN") = 0

CleanEOFAfterAFrame ==
    \E s \in Sessions :
        /\ session[s].err = "EOF" /\ session[s].msgLen = 0
        /\ session[s].pc = "done"
        /\ Total(s, "ReadMsg") = 2

\* C4: for a frame that unmarshals and whose type has a handler that returned
\* a response, the iteration has recorded exactly one received event, tagged
\* with the type; the step in which the write succeeds records exactly one
\* latency sample, with the same tag, and no error, and leaves the session
\* running at the top of the loop, from where, in server mode, the next step
\* of the session is the read of the next frame.
ServedRequestCountedOnce ==
    /\ [](\A s \in Sessions :
            LET it == Iter(s)
                t == session[s].req
                written == \E i \in DOMAIN it : it[i].e = "WriteMsg" /\ it[i].r = "nil"
            IN /\ session[s].pc = "write" =>
                    /\ t \in Registered
                    /\ N(s, "ReceivedMessages") = 1
                    /\ \A i \in Of(s, "ReceivedMessages") : it[i].t = t /\ it[i].n = 1
                    /\ N(s, "InboundRequestLatency") = 0
               /\ written =>
                    /\ t \in Registered
                    /\ N(s, "ReceivedMessages") = 1
                    /\ \A i \in Of(s, "ReceivedMessages") : it[i].t = t /\ it[i].n = 1
                    /\ N(s, "InboundRequestLatency") = 1
                    /\ \A i \in Of(s, "InboundRequestLatency") : it[i].t = t
                    /\ it[Len(it)].e = "InboundRequestLatency"
                    /\ N(s, "ReceivedMessageErrors") = 0)
    /\ [][\A s \in Sessions :
            /\ Len(stream'[s].outbox) > Len(stream[s].outbox) =>
                  /\ session'[s].pc = "gate" /\ session'[s].ret = "running"
                  /\ Total(s, "InboundRequestLatency")' = Total(s, "InboundRequestLatency") + 1
                  /\ Total(s, "ReceivedMessages")' = Total(s, "ReceivedMessages")
            /\ session[s].pc = "gate" /\ session'[s].pc # "gate" /\ mode = modeServer =>
                  session'[s].pc = "read" /\ session'[s].ret = "running"]_vars

NextFrameAfterLatencySample ==
    \E s \in Sessions :
        /\ Total(s, "InboundRequestLatency") = 1
        /\ Total(s, "ReadMsg") = 2
        /\ session[s].pc = "handler"

\* C5: for a request whose type has no handler, the iteration records one
\* received event and one received-error event, both tagged with the type,
\* calls no handler, writes nothing, and the session returns false.
NoHandlerAborts ==
    \A s \in Sessions :
        LET it == Iter(s)
            t == session[s].req
        IN t \notin Registered \cup {"none"} =>
              /\ Returned(s) /\ session[s].ret = "false"
              /\ N(s, "ReceivedMessages") = 1
              /\ \A i \in Of(s, "ReceivedMessages") : it[i].t = t /\ it[i].n = 1
              /\ N(s, "ReceivedMessageErrors") = 1
              /\ \A i \in Of(s, "ReceivedMessageErrors") : it[i].t = t /\ it[i].n = 1
              /\ N(s, "handler") = 0
              /\ N(s, "WriteMsg") = 0
              /\ Total(s, "WriteMsg") = Len(stream[s].outbox)

UnregisteredTypeReceived ==
    \E s \in Sessions : session[s].req = "X" /\ session[s].pc = "done"

\* C6: while the mode flag is not server mode, a session that has already
\* read a frame and is waiting in ReadMsg for the next one does not go on to
\* unmarshal, count, dispatch or answer that frame.
ModeOffStopsNextFrame ==
    [][\A s \in Sessions :
          /\ mode # modeServer
          /\ session[s].pc = "read"
          /\ Total(s, "ReadMsg") >= 1
          => /\ Total(s, "Unmarshal")' = Total(s, "Unmarshal")
             /\ Total(s, "ReceivedMessages")' = Total(s, "ReceivedMessages")
             /\ session'[s].pc \notin {"handler", "write"}]_vars

\* C7: a session never stays in ReadMsg forever: if no frame arrives, the
\* timer expires, its callback resets the stream, and the read returns; and
\* the read that follows a reset by the callback fails with "stream reset"
\* and ends the session with false.
WatchdogEndsIdleSession ==
    /\ \A s \in Sessions : (session[s].pc = "read") ~> (session[s].pc # "read")
    /\ [][\A s \in Sessions :
            /\ stream[s].calls.WatchdogReset > 0
            /\ session[s].pc = "read"
            /\ session'[s].pc # "read"
            => /\ session'[s].err = "stream reset"
               /\ session'[s].ret = "false"
               /\ Returned(s)']_vars

SilentPeerAborted ==
    \E s \in Sessions :
        /\ stream[s].sent = 0 /\ stream[s].fin = Open
        /\ stream[s].calls.WatchdogReset = 1
        /\ session[s].pc = "done" /\ session[s].ret = "false"
        /\ session[s].err = "stream reset"

\* C8: the frames of a stream are handled one at a time in arrival order: the
\* frame in hand is the next one the peer sent; when the session is about to
\* read, every frame read so far has had its handler return and every
\* response a handler returned has been written; and the responses written
\* are in the order of their requests.
OneRequestAtATimeInOrder ==
    \A s \in Sessions :
        LET out == stream[s].outbox
            n == Total(s, "Unmarshal")
        IN /\ session[s].pc \in {"handler", "write"} => session[s].msg.seq = n
           /\ session[s].pc = "handler" =>
                /\ Total(s, "handler") = n - 1
                /\ Total(s, "handler/response") = Len(out)
           /\ session[s].pc = "write" =>
                /\ Total(s, "handler") = n
                /\ Total(s, "handler/response") = Len(out) + 1
           /\ session[s].pc \in {"gate", "read"} =>
                /\ Total(s, "handler") = n
                /\ Total(s, "handler/response") = Len(out)
                /\ Total(s, "WriteMsg") = Len(out)
           /\ \A i, j \in DOMAIN out : i < j => out[i] < out[j]
           /\ \A i \in DOMAIN out : out[i] <= n

TwoResponsesInOrder ==
    \E s \in Sessions : stream[s].outbox = <<1, 2>> /\ session[s].pc = "read"

\* C9 as stated: after PING (handler returns an empty response), FIND_NODE
\* (handler returns a populated response) and a clean end of stream, the
\* session has recorded two received events, made one WriteMsg call and
\* recorded one latency sample.
PingFindNodeOneWrite ==
    \A s \in Sessions :
        events[s].scenario = "matched" =>
           /\ Total(s, "ReceivedMessages") = 2
           /\ Total(s, "WriteMsg") = 1
           /\ Total(s, "InboundRequestLatency") = 1

\* C9, amended: after that exchange the session has recorded two received
\* events, made two WriteMsg calls, both successful (the empty response to
\* PING is written too), and recorded two latency samples.
PingFindNodeTwoWrites ==
    \A s \in Sessions :
        events[s].scenario = "matched" =>
           /\ Total(s, "ReceivedMessages") = 2
           /\ Total(s, "ReceivedMessages/UNKNOWN") = 0
           /\ Total(s, "WriteMsg") = 2
           /\ stream[s].outbox = <<1, 2>>
           /\ Total(s, "InboundRequestLatency") = 2
           /\ session[s].ret = "true"

PingFindNodeExchangeDone ==
    \E s \in Sessions : events[s].scenario = "matched" /\ session[s].pc = "done"

\* C10: whenever ReadMsg fails with anything other than io.EOF with no bytes,
\* the session returns false, after recording the UNKNOWN triple (received 1,
\* error 1, bytes len(msgbytes)) if len(msgbytes) > 0 and nothing otherwise.
ReadFailureAborts ==
    \A s \in Sessions :
        LET err == session[s].err
            n == session[s].msgLen
            read == << EvR("ReadMsg", "-", n, err) >>
        IN err \notin {"none", "nil"} /\ ~(err = "EOF" /\ n = 0) =>
              /\ Returned(s) /\ session[s].ret = "false"
              /\ Iter(s) = read \o (IF n > 0 THEN UnknownTriple(n) ELSE <<>>)

\* What holds of the error branch as written: the same, for every error but
\* io.EOF.
ReadFailureOtherThanEOFAborts ==
    \A s \in Sessions :
        LET err == session[s].err
            n == session[s].msgLen
            read == << EvR("ReadMsg", "-", n, err) >>
        IN err \notin {"none", "nil", "EOF"} =>
              /\ Returned(s) /\ session[s].ret = "false"
              /\ Iter(s) = read \o (IF n > 0 THEN UnknownTriple(n) ELSE <<>>)

\* C11: sessions on distinct streams do not interfere.  A step in which one
\* session moves, records an event, fails or returns, or in which its stream
\* is closed or reset (by its caller or by its timer's callback), or its
\* timer is rearmed, stopped or fires, leaves the control state, the stream,
\* the timer and the history of every other session unchanged; and a stream
\* is reset on this side only by its own session's caller or its own timer.
SessionsDoNotInterfere ==
    /\ [](\A s \in Sessions :
            stream[s].reset =>
               stream[s].calls.Reset + stream[s].calls.WatchdogReset > 0)
    /\ [][\A s, t \in Sessions :
            /\ s # t
            /\ \/ session'[s] # session[s]
               \/ events'[s] # events[s]
               \/ stream'[s].reset # stream[s].reset
               \/ stream'[s].closed # stream[s].closed
               \/ stream'[s].calls # stream[s].calls
               \/ stream'[s].outbox # stream[s].outbox
               \/ timer'[s].armed # timer[s].armed
               \/ timer'[s].pending # timer[s].pending
            => /\ session'[t] = session[t]
               /\ stream'[t] = stream[t]
               /\ timer'[t] = timer[t]
               /\ events'[t] = events[t]]_vars

\* Session 2 was ended by its timer's callback and its stream reset, and
\* session 1 has answered a request and is running, its stream untouched.
ServingBesideAnAbortedSession ==
    /\ session[2].pc = "done" /\ session[2].ret = "false"
    /\ stream[2].calls.WatchdogReset = 1
    /\ session[1].pc = "gate" /\ session[1].ret = "running"
    /\ stream[1].outbox = <<1>>
    /\ ~stream[1].reset /\ ~stream[1].closed
    /\ timer[1].armed

\* C12: when ReadMsg returned a frame and Unmarshal fails, the iteration
\* consists of the read, the failed Unmarshal and the UNKNOWN metrics
\* (received 1, error 1, bytes the frame's length): no timer.Reset, no
\* hook, no handler, no write; the session returns false, and the step
\* leaves the time left on the timer and the responses written as they were.
UnmarshalFailureAborts ==
    /\ [](\A s \in Sessions :
            LET n == session[s].msgLen IN
            (\E i \in DOMAIN Iter(s) : Iter(s)[i].e = "Unmarshal" /\ Iter(s)[i].r = "error")
            => /\ Returned(s) /\ session[s].ret = "false"
               /\ session[s].err = "nil" /\ n = session[s].msg.len /\ n > 0
               /\ Iter(s) = << EvR("ReadMsg", "-", n, "nil"), EvR("Unmarshal", "-", n, "error") >>
                               \o UnknownTriple(n)
               /\ Total(s, "WriteMsg") = Len(stream[s].outbox)
               /\ ~timer[s].armed)
    /\ [][\A s \in Sessions :
            Total(s, "Unmarshal")' > Total(s, "Unmarshal") /\ ~session'[s].msg.ok
            => /\ timer'[s].left = timer[s].left
               /\ Total(s, "timer.Reset")' = Total(s, "timer.Reset")
               /\ Total(s, "onRequestHook")' = Total(s, "onRequestHook")
               /\ Total(s, "handler")' = Total(s, "handler")
               /\ stream'[s].outbox = stream[s].outbox]_vars

UndecodableSecondFrame ==
    \E s \in Sessions :
        /\ session[s].pc = "done"
        /\ Total(s, "Unmarshal") = 2
        /\ Total(s, "timer.Reset") = 1
        /\ \E i \in DOMAIN Iter(s) : Iter(s)[i].e = "Unmarshal" /\ Iter(s)[i].r = "error"

\* C13: when the handler returns an error, or returns a response whose write
\* fails, the iteration records exactly one received-error event, tagged
\* with the type of the request, besides the one received event with the same
\* tag, and no latency sample, and the session returns false; after a handler
\* error WriteMsg is not called, and a failed write adds nothing to the
\* responses written.
HandlerOrWriteFailureAborts ==
    \A s \in Sessions :
        LET it == Iter(s)
            t == session[s].req
            handlerFailed == \E i \in DOMAIN it : it[i].e = "handler" /\ it[i].r = "error"
            writeFailed == \E i \in DOMAIN it : it[i].e = "WriteMsg" /\ it[i].r = "error"
        IN handlerFailed \/ writeFailed =>
              /\ Returned(s) /\ session[s].ret = "false"
              /\ t \in Registered
              /\ N(s, "ReceivedMessages") = 1
              /\ \A i \in Of(s, "ReceivedMessages") : it[i].t = t /\ it[i].n = 1
              /\ N(s, "ReceivedMessageErrors") = 1
              /\ \A i \in Of(s, "ReceivedMessageErrors") : it[i].t = t /\ it[i].n = 1
              /\ Total(s, "ReceivedMessageErrors") = 1
              /\ N(s, "InboundRequestLatency") = 0
              /\ Total(s, "InboundRequestLatency") = Len(stream[s].outbox)
              /\ \A i \in DOMAIN stream[s].outbox : stream[s].outbox[i] # session[s].msg.seq
              /\ N(s, "handler") = 1
              /\ handlerFailed => N(s, "WriteMsg") = 0 /\ session[s].resp = "none"
              /\ writeFailed =>
                    /\ N(s, "WriteMsg") = 1
                    /\ \A i \in Of(s, "handler") : it[i].r \in {"empty", "populated"}

HandlerFailedOnSecondRequest ==
    \E s \in Sessions :
        /\ session[s].pc = "done"
        /\ stream[s].outbox = <<1>>
        /\ \E i \in DOMAIN Iter(s) : Iter(s)[i].e = "handler" /\ Iter(s)[i].r = "error"

\* C14: every iteration begins with the mode check, the first one included:
\* ReadMsg is only called by a session that has just passed the check in
\* server mode; a session that finds another mode returns false in that
\* step, calling nothing and recording nothing, its stream untouched; and no
\* step of a session changes the mode.
ModeCheckedBeforeEveryRead ==
    /\ [](\A s \in Sessions :
            /\ Total(s, "ReadMsg") = 0 /\ session[s].pc \notin {"absent", "gate", "read"}
                  => Returned(s) /\ session[s].ret = "false" /\ events[s] = NoEvents
            /\ session[s].pc = "read" => Iter(s) = <<>>)
    /\ [][\A s \in Sessions :
            /\ session[s].pc # "read" /\ session'[s].pc = "read"
                  => session[s].pc = "gate" /\ mode = modeServer
            /\ session[s].pc = "gate" /\ session'[s].pc # "gate" /\ mode # modeServer
                  => /\ session'[s].pc = "caller" /\ session'[s].ret = "false"
                     /\ events'[s] = events[s]
                     /\ stream'[s] = stream[s]
                     /\ ~timer'[s].armed
            /\ mode' # mode => session'[s] = session[s] /\ events'[s] = events[s]]_vars

RefusedBeforeAnyRead ==
    \E s \in Sessions :
        /\ session[s].pc = "done" /\ session[s].ret = "false"
        /\ events[s] = NoEvents
        /\ stream[s].calls.WatchdogReset = 0 /\ timer[s].pending = 0
        /\ Len(stream[s].inbox) = 1


\* C15: the timer is armed with the full dhtStreamIdleTimeout when the session
\* starts, and timer.Reset(dhtStreamIdleTimeout) is called exactly once for
\* every frame that was read and unmarshalled, right after Unmarshal and
\* before the hook, the lookup and the handler, whatever the handler returns
\* later.  The step that decodes a frame leaves the full duration on the
\* timer however little was left; no other step of the session (a failed
\* read, a failed Unmarshal, a handler return, a write) adds time to the
\* timer or arms it.
RearmedOncePerDecodedFrame ==
    /\ [](\A s \in Sessions :
            LET it == Iter(s)
                decoded == { i \in DOMAIN it : it[i].e = "Unmarshal" /\ it[i].r = "nil" }
            IN /\ Total(s, "timer.Reset")
                     = Total(s, "ReceivedMessages") - Total(s, "ReceivedMessages/UNKNOWN")
               /\ N(s, "timer.Reset") = Cardinality(decoded)
               /\ Cardinality(decoded) <= 1
               /\ \A i \in decoded :
                     /\ it[i + 1] = Ev("timer.Reset", "-", dhtStreamIdleTimeout)
                     /\ \A j \in DOMAIN it :
                           it[j].e \in {"onRequestHook", "handler", "WriteMsg",
                                        "ReceivedMessageErrors"} => j > i + 1
               /\ timer[s].left <= dhtStreamIdleTimeout
               /\ session[s].pc \in {"gate", "read"} /\ Total(s, "ReadMsg") = 0
                     /\ timer[s].pending = 0 /\ stream[s].calls.WatchdogReset = 0
                     => timer[s].armed)
    /\ [][\A s \in Sessions :
            LET decodes == /\ Total(s, "Unmarshal")' = Total(s, "Unmarshal") + 1
                           /\ session'[s].msg.ok
            IN /\ decodes =>
                     /\ timer'[s].left = dhtStreamIdleTimeout
                     /\ timer'[s].armed <=> session'[s].ret = "running"
                     /\ Total(s, "timer.Reset")' = Total(s, "timer.Reset") + 1
               /\ ~decodes =>
                     /\ timer'[s].left <= timer[s].left
                     /\ timer'[s].armed => timer[s].armed
                     /\ Total(s, "timer.Reset")' = Total(s, "timer.Reset")]_vars

RearmedBeforeFailingHandler ==
    \E s \in Sessions :
        /\ session[s].pc = "done"
        /\ Total(s, "timer.Reset") = 2
        /\ timer[s].left = dhtStreamIdleTimeout
        /\ \E i \in DOMAIN Iter(s) : Iter(s)[i].e = "handler" /\ Iter(s)[i].r = "error"


\* C16: once the timer's callback has reset the stream, the session does not
\* return through the write-failure branch: the step in which it returns is
\* not a WriteMsg call, and records no error under the type of a request.
WatchdogSeenOnlyByRead ==
    [][\A s \in Sessions :
          /\ stream[s].calls.WatchdogReset > 0
          /\ session[s].pc = "write"
          /\ Returned(s)'
          => /\ Total(s, "WriteMsg")' = Total(s, "WriteMsg")
             /\ Total(s, "ReceivedMessageErrors")' = Total(s, "ReceivedMessageErrors")]_vars


\* C17: after a handler call that returned no error, WriteMsg is skipped if
\* and only if the response is nil.  With a nil response the iteration has no
\* WriteMsg call and no latency sample, nothing is added to the responses
\* written, and the session is back at the mode check; a response that is
\* present, empty or populated, takes the session to exactly one WriteMsg
\* call.
WriteSkippedOnlyForNil ==
    /\ [](\A s \in Sessions :
            LET it == Iter(s)
                waiting == IF session[s].pc = "write" THEN 1 ELSE 0
            IN /\ Total(s, "WriteMsg") + waiting = Total(s, "handler/response")
               /\ \A i \in Of(s, "handler") :
                     /\ it[i].r = "nil" =>
                           /\ N(s, "WriteMsg") = 0
                           /\ N(s, "InboundRequestLatency") = 0
                           /\ i = Len(it)
                           /\ session[s].resp = "none"
                           /\ session[s].ret = "running" => session[s].pc = "gate"
                     /\ it[i].r \in {"empty", "populated"} =>
                           /\ session[s].resp = it[i].r
                           /\ N(s, "WriteMsg") + waiting = 1
                           /\ \A j \in Of(s, "WriteMsg") : j = i + 1)
    /\ [][\A s \in Sessions :
            Total(s, "handler")' = Total(s, "handler") + 1 =>
               /\ stream'[s].outbox = stream[s].outbox
               /\ Total(s, "handler/response")' = Total(s, "handler/response")
                     /\ session'[s].ret = "running"
                     => session'[s].pc = "gate" /\ session'[s].resp = "none"
               /\ Total(s, "handler/response")' > Total(s, "handler/response")
                     => session'[s].pc = "write" /\ session'[s].resp \in {"empty", "populated"}]_vars

EmptyResponseWrittenAfterSkippedWrite ==
    \E s \in Sessions :
        /\ Total(s, "handler") = 2
        /\ stream[s].outbox = <<2>>
        /\ session[s].resp = "empty"
        /\ session[s].pc = "gate"

\* The events of evs other than the calls of the hook.
WithoutHook(evs) == SelectSeq(evs, LAMBDA ev : ev.e # "onRequestHook")

CountersStayOrdered ==
    \A s \in Sessions :
        LET errors == Total(s, "ReceivedMessageErrors")
            typed == Total(s, "ReceivedMessages") - Total(s, "ReceivedMessages/UNKNOWN")
        IN /\ errors <= 1
           /\ errors = 1 => Returned(s) /\ session[s].ret = "false"
           /\ session[s].ret = "true" => errors = 0
           /\ Total(s, "InboundRequestLatency") = Len(stream[s].outbox)
           /\ Len(stream[s].outbox) <= Total(s, "handler")
           /\ Total(s, "handler") <= typed
           /\ Total(s, "ReceivedMessages/UNKNOWN") <= errors

FewerWritesThanCallsThanReceipts ==
    \E s \in Sessions :
        /\ session[s].pc = "done"
        /\ Total(s, "InboundRequestLatency") = 0
        /\ Total(s, "handler") = 1
        /\ Total(s, "ReceivedMessages") = 2
        /\ Total(s, "ReceivedMessages/UNKNOWN") = 0
        /\ Total(s, "ReceivedMessageErrors") = 1

\* C20: the timer's callback does not outlive the session: a stream whose
\* session returned true is closed by handleNewStream and is not reset by the
\* callback, before or after the close.
WatchdogStopsWithSession ==
    \A s \in Sessions :
        session[s].ret = "true" =>
           /\ stream[s].calls.WatchdogReset = 0
           /\ ~stream[s].reset
           /\ session[s].pc = "done" => stream[s].closed

====
